---- MODULE Spec2Model ----
(***************************************************************************)
(* Citation de-duplication pipeline of src/new-parser.py:                  *)
(* Citation (derived fields, fingerprint, similarity score) and            *)
(* CitationAnalyzer (load_data, _parse_citations, _remove_duplicates,      *)
(* _resolve_duplicate_group, _remove_similar_duplicates, _should_replace,  *)
(* _organize_citations).                                                   *)
(*                                                                         *)
(* A text is a sequence of one-character strings over Alphabet.  The       *)
(* regular expressions of the source are modelled exactly for texts over   *)
(* that alphabet; where a pattern needs a character the alphabet lacks,    *)
(* the definition says so.  An Optional value is <<>> (None) or <<v>>.     *)
(* A score is an exact fraction <<numerator, denominator>>.                *)
(* hashlib.md5 is taken to be injective: a fingerprint is the string that  *)
(* the source hashes.                                                      *)
(***************************************************************************)
EXTENDS Integers, Sequences, FiniteSets

\* ------------------------------------------------------------ characters

Lower == {"a", "b", "c", "d"}
Upper == {"A", "B", "C", "D"}
DigitChars == <<"0", "1", "2", "3", "4", "5", "6", "7", "8", "9">>
Digit == {DigitChars[k] : k \in 1..10}
Space == {" "}
Punct == {".", ",", ";", ":", "!", "?", "\""}
Alphabet == Lower \cup Upper \cup Digit \cup Space \cup Punct \cup {"(", ")", "/", "&"}

\* \w of the re module, over Alphabet
IsWord(c) == c \in Lower \cup Upper \cup Digit \cup {"_"}

\* str.lower() on one character
LowerChar(c) ==
    CASE c = "A" -> "a" [] c = "B" -> "b" [] c = "C" -> "c" [] c = "D" -> "d"
      [] OTHER -> c

lower(s) == [k \in 1..Len(s) |-> LowerChar(s[k])]

\* int() of one digit character
DigitVal(c) == (CHOOSE k \in 1..10 : DigitChars[k] = c) - 1

\* int() of the four digits s[i..i+3]
Int4(s, i) ==
    1000 * DigitVal(s[i]) + 100 * DigitVal(s[i+1]) + 10 * DigitVal(s[i+2]) + DigitVal(s[i+3])

\* str() of a natural number
RECURSIVE str(_)
str(n) == IF n < 10 THEN <<DigitChars[n + 1]>>
          ELSE str(n \div 10) \o <<DigitChars[(n % 10) + 1]>>

None == <<>>
Some(v) == <<v>>
IsSome(o) == o # <<>>
Val(o) == o[1]

Min(S) == CHOOSE x \in S : \A y \in S : x <= y
Max(S) == CHOOSE x \in S : \A y \in S : x >= y

\* s[i..j], empty when j < i
Slice(s, i, j) == IF j < i THEN <<>> ELSE SubSeq(s, i, j)

\* the characters of s not in the set R, in order (re.sub of a character class by '')
RECURSIVE RemoveChars(_, _)
RemoveChars(s, R) ==
    IF s = <<>> THEN <<>>
    ELSE IF Head(s) \in R THEN RemoveChars(Tail(s), R)
         ELSE <<Head(s)>> \o RemoveChars(Tail(s), R)

\* re.sub(r'[R]+', ' ', s): every maximal run of characters of R becomes one space
RECURSIVE CollapseRuns(_, _)
CollapseRuns(s, R) ==
    IF s = <<>> THEN <<>>
    ELSE IF Head(s) \in R
         THEN IF Len(s) > 1 /\ s[2] \in R THEN CollapseRuns(Tail(s), R)
              ELSE <<" ">> \o CollapseRuns(Tail(s), R)
         ELSE <<Head(s)>> \o CollapseRuns(Tail(s), R)

\* str.strip(): leading and trailing whitespace removed
strip(s) ==
    LET keep == {k \in 1..Len(s) : s[k] \notin Space}
    IN  IF keep = {} THEN <<>> ELSE SubSeq(s, Min(keep), Max(keep))

\* str.rstrip(chars)
rstrip(s, R) ==
    LET keep == {k \in 1..Len(s) : s[k] \notin R}
    IN  IF keep = {} THEN <<>> ELSE SubSeq(s, 1, Max(keep))

\* re.sub(r'\([^)]*\)', '', s): from each '(' to the first ')' after it
RECURSIVE RemoveParenthetical(_)
RemoveParenthetical(s) ==
    LET opens == {k \in 1..Len(s) : s[k] = "(" /\ \E j \in (k+1)..Len(s) : s[j] = ")"}
    IN  IF opens = {} THEN s
        ELSE LET i == Min(opens)
                 j == Min({k \in (i+1)..Len(s) : s[k] = ")"})
             IN  Slice(s, 1, i - 1) \o RemoveParenthetical(Slice(s, j + 1, Len(s)))

\* ------------------------------------------------------------ Citation

\* s[i..i+3] are four digits
FourDigitsAt(s, i) == i >= 1 /\ i + 3 <= Len(s) /\ \A k \in i..(i+3) : s[k] \in Digit

YearMin == 1950
YearMax == 2030

\* a variant that takes the first parenthesized number that is in range, not the first
\* parenthesized number if it is in range
_extract_year_any_paren(text) ==
    LET paren == {i \in 1..Len(text) :
                     /\ text[i] = "("
                     /\ FourDigitsAt(text, i + 1)
                     /\ i + 5 <= Len(text)
                     /\ text[i + 5] = ")"
                     /\ YearMin <= Int4(text, i + 1) /\ Int4(text, i + 1) <= YearMax}
        bare  == {i \in 1..Len(text) :
                     /\ FourDigitsAt(text, i)
                     /\ (i = 1 \/ ~IsWord(text[i - 1]))
                     /\ (i + 3 = Len(text) \/ ~IsWord(text[i + 4]))}
        valid == {i \in bare : YearMin <= Int4(text, i) /\ Int4(text, i) <= YearMax}
    IN  IF paren # {} THEN Some(Int4(text, Min(paren) + 1))
        ELSE IF valid # {} THEN Some(Int4(text, Min(valid)))
        ELSE None

_extract_year(text) ==
    LET paren == {i \in 1..Len(text) :
                     /\ text[i] = "("
                     /\ FourDigitsAt(text, i + 1)
                     /\ i + 5 <= Len(text)
                     /\ text[i + 5] = ")"}
        \* \b(\d{4})\b
        bare  == {i \in 1..Len(text) :
                     /\ FourDigitsAt(text, i)
                     /\ (i = 1 \/ ~IsWord(text[i - 1]))
                     /\ (i + 3 = Len(text) \/ ~IsWord(text[i + 4]))}
        valid == {i \in bare : YearMin <= Int4(text, i) /\ Int4(text, i) <= YearMax}
    IN  IF paren # {} /\ YearMin <= Int4(text, Min(paren) + 1)
                      /\ Int4(text, Min(paren) + 1) <= YearMax
        THEN Some(Int4(text, Min(paren) + 1))
        ELSE IF valid # {} THEN Some(Int4(text, Min(valid)))
        ELSE None

\* Lines 66, 67, 69 and 70 substitute patterns that need a ':' or a '.', and
\* line 64 has removed both by then: they change nothing.
_normalize_text(text) ==
    LET t1 == lower(text)
        t2 == CollapseRuns(t1, Space \cup {"&"})
        t3 == RemoveChars(t2, Punct)
        t4 == CollapseRuns(t3, Space)
        t5 == RemoveParenthetical(t4)
    IN  strip(t5)

\* End of a match of  [0-9]+/[^\s,)]+  that starts at i, or 0.
DoiTailEnd(s, i) ==
    LET nd  == {k \in i..Len(s) : s[k] \notin Digit}
        sl  == IF nd = {} THEN 0 ELSE Min(nd)
        stp == {k \in (sl+1)..Len(s) : s[k] \in Space \cup {",", ")"}}
        e   == IF stp = {} THEN Len(s) ELSE Min(stp) - 1
    IN  IF sl > i /\ s[sl] = "/" /\ e > sl THEN e ELSE 0

\* The patterns of lines 78-80 need "doi:" or "http", which no text over
\* Alphabet contains; line 81 is \b(10\.[0-9]+/[^\s,)]+).
_extract_doi(text) ==
    LET starts == {i \in 1..Len(text) :
                      /\ i + 2 <= Len(text)
                      /\ text[i] = "1" /\ text[i+1] = "0" /\ text[i+2] = "."
                      /\ (i = 1 \/ ~IsWord(text[i - 1]))
                      /\ DoiTailEnd(text, i + 3) > 0}
    IN  IF starts = {} THEN None
        ELSE LET i == Min(starts)
                 doi == SubSeq(text, i, DoiTailEnd(text, i + 3))
             IN  Some(lower(rstrip(doi, {".", ",", ";", ")"})))

TitleMinLen == 10

\* Line 105: (?:\.|\))\s+([^.]+?)\s+\(\d{4}\) searched from the left; the
\* first \s+ is greedy, the group lazy.  A match is (i, p, q): the mark at i,
\* whitespace i+1..p, the group p+1..q, whitespace q+1..r, "(dddd)" at r+1.
TitleBeforeYear(text) ==
    LET n == Len(text)
        YearAt(r) == /\ r + 5 <= n /\ text[r] = "(" /\ FourDigitsAt(text, r + 1)
                     /\ text[r + 5] = ")"
        AllSpace(a, b) == \A k \in a..b : text[k] \in Space
        Ok(i, p, q) ==
            /\ text[i] \in {".", ")"}
            /\ p > i /\ AllSpace(i + 1, p)
            /\ q > p /\ \A k \in (p+1)..q : text[k] # "."
            /\ \E r \in (q+1)..n : AllSpace(q + 1, r) /\ YearAt(r + 1)
        M == {m \in (1..n) \X (1..n) \X (1..n) : Ok(m[1], m[2], m[3])}
    IN  IF M = {} THEN None
        ELSE LET i == Min({m[1] : m \in M})
                 p == Max({m[2] : m \in {x \in M : x[1] = i}})
                 q == Min({m[3] : m \in {x \in M : x[1] = i /\ x[2] = p}})
                 title == strip(SubSeq(text, p + 1, q))
             IN  IF Len(title) > TitleMinLen THEN Some(title) ELSE None

\* Line 97: "([^"]+)" ; line 104 needs "Journal", "Conference" or
\* "Proceedings", which no text over Alphabet contains.
_extract_title(text) ==
    LET quoted == {i \in 1..Len(text) :
                      /\ text[i] = "\""
                      /\ i + 1 <= Len(text) /\ text[i + 1] # "\""
                      /\ \E j \in (i+2)..Len(text) : text[j] = "\""}
    IN  IF quoted # {}
        THEN LET i == Min(quoted)
                 j == Min({k \in (i+2)..Len(text) : text[k] = "\""})
             IN  Some(strip(SubSeq(text, i + 1, j - 1)))
        ELSE TitleBeforeYear(text)

\* truth value of an Optional string (None and '' are false)
TruthyStr(o) == IsSome(o) /\ Val(o) # <<>>

\* truth value of an Optional number (None and 0 are false)
TruthyNum(o) == IsSome(o) /\ Val(o) # 0

\* a variant that never uses the DOI
_generate_fingerprint_text_only(normalized_text, year, doi) ==
    normalized_text \o <<":">> \o
    (IF TruthyNum(year) THEN str(Val(year)) ELSE <<"n", "o", "_", "y", "e", "a", "r">>)

\* a variant that leaves the year out
_generate_fingerprint_no_year(normalized_text, year, doi) ==
    IF TruthyStr(doi) THEN <<"d", "o", "i", ":">> \o Val(doi)
    ELSE normalized_text

_generate_fingerprint(normalized_text, year, doi) ==
    IF TruthyStr(doi) THEN <<"d", "o", "i", ":">> \o Val(doi)
    ELSE normalized_text \o <<":">> \o
         (IF TruthyNum(year) THEN str(Val(year)) ELSE <<"n", "o", "_", "y", "e", "a", "r">>)

\* a variant whose fingerprint depends on the author
Citation_author_in_fingerprint(text, author, category) ==
    LET year == _extract_year(text)
        normalized_text == _normalize_text(text)
        doi == _extract_doi(text)
        title == _extract_title(text)
    IN  [text |-> text, author |-> author, year |-> year,
         category |-> category, normalized_text |-> normalized_text,
         fingerprint |-> _generate_fingerprint(normalized_text, year, doi) \o <<":", author>>,
         doi |-> doi, title |-> title]

\* Citation(text=..., author=..., category=...) followed by __post_init__
Citation(text, author, category) ==
    LET year == _extract_year(text)
        normalized_text == _normalize_text(text)
        doi == _extract_doi(text)
        title == _extract_title(text)
    IN  [text |-> text, author |-> author, year |-> year,
         category |-> category, normalized_text |-> normalized_text,
         fingerprint |-> _generate_fingerprint(normalized_text, year, doi),
         doi |-> doi, title |-> title]

\* dataclass __eq__: the fields compared as a tuple (the record holds nothing else)
CitEq(a, b) == a = b

\* ------------------------------------------------------------ similarity

\* exact fractions <<n, d>>, d > 0
Geq(x, y) == x[1] * y[2] >= y[1] * x[2]
Less(x, y) == ~Geq(x, y)
SameScore(x, y) == x[1] * y[2] = y[1] * x[2]
One == <<1, 1>>

\* length of the common run of a from i and b from j, inside a[..ahi-1], b[..bhi-1]
RECURSIVE RunLen(_, _, _, _, _, _)
RunLen(a, b, i, j, ahi, bhi) ==
    IF i < ahi /\ j < bhi /\ a[i] = b[j] THEN 1 + RunLen(a, b, i + 1, j + 1, ahi, bhi)
    ELSE 0

\* difflib.SequenceMatcher.find_longest_match without junk: the longest
\* block of a[alo..ahi-1] and b[blo..bhi-1], the earliest in a and, of
\* those, the earliest in b; <<i, j, k>>
find_longest_match(a, b, alo, ahi, blo, bhi) ==
    LET P == (alo..(ahi - 1)) \X (blo..(bhi - 1))
        k == IF P = {} THEN 0 ELSE Max({RunLen(a, b, p[1], p[2], ahi, bhi) : p \in P})
    IN  IF k = 0 THEN <<alo, blo, 0>>
        ELSE LET i == Min({p[1] : p \in {q \in P : RunLen(a, b, q[1], q[2], ahi, bhi) = k}})
                 j == Min({p[2] : p \in {q \in P : q[1] = i
                                            /\ RunLen(a, b, q[1], q[2], ahi, bhi) = k}})
             IN  <<i, j, k>>

\* the total size of difflib.SequenceMatcher.get_matching_blocks
RECURSIVE MatchedChars(_, _, _, _, _, _)
MatchedChars(a, b, alo, ahi, blo, bhi) ==
    LET m == find_longest_match(a, b, alo, ahi, blo, bhi)
        i == m[1]
        j == m[2]
        k == m[3]
    IN  IF k = 0 THEN 0
        ELSE k + (IF alo < i /\ blo < j THEN MatchedChars(a, b, alo, i, blo, j) ELSE 0)
               + (IF i + k < ahi /\ j + k < bhi
                  THEN MatchedChars(a, b, i + k, ahi, j + k, bhi) ELSE 0)

\* SequenceMatcher(None, a, b).ratio()
ratio(a, b) ==
    IF Len(a) + Len(b) = 0 THEN One
    ELSE <<2 * MatchedChars(a, b, 1, Len(a) + 1, 1, Len(b) + 1), Len(a) + Len(b)>>

\* re.sub(r'[^\w\s]', '', text.lower()).strip()
_normalize_string(text) ==
    strip(RemoveChars(lower(text), Alphabet \ (Lower \cup Digit \cup Space)))

TitleScore == <<19, 20>>

\* a variant that adds nothing
Boost_none(x) == x

\* a variant without the cap
Boost_uncapped(x) == <<10 * x[1] + x[2], 10 * x[2]>>

\* min(1.0, similarity + 0.1)
Boost(x) == IF 10 * x[1] + x[2] >= 10 * x[2] THEN One ELSE <<10 * x[1] + x[2], 10 * x[2]>>

\* a variant that boosts whenever both citations have a year
similarity_score_any_year(self, other) ==
    IF TruthyStr(self.doi) /\ TruthyStr(other.doi) /\ self.doi = other.doi THEN One
    ELSE IF /\ TruthyStr(self.title) /\ TruthyStr(other.title)
            /\ self.year = other.year
            /\ _normalize_string(Val(self.title)) = _normalize_string(Val(other.title))
    THEN TitleScore
    ELSE LET similarity == ratio(self.normalized_text, other.normalized_text)
         IN  IF TruthyNum(self.year) /\ TruthyNum(other.year)
             THEN Boost(similarity)
             ELSE similarity

similarity_score(self, other) ==
    IF TruthyStr(self.doi) /\ TruthyStr(other.doi) /\ self.doi = other.doi THEN One
    ELSE IF /\ TruthyStr(self.title) /\ TruthyStr(other.title)
            /\ self.year = other.year
            /\ _normalize_string(Val(self.title)) = _normalize_string(Val(other.title))
    THEN TitleScore
    ELSE LET similarity == ratio(self.normalized_text, other.normalized_text)
         IN  IF TruthyNum(self.year) /\ TruthyNum(other.year) /\ self.year = other.year
             THEN Boost(similarity)
             ELSE similarity

is_duplicate_of(self, other, threshold) == Geq(similarity_score(self, other), threshold)

\* ------------------------------------------------------------ CitationAnalyzer

\* the most citations one input file holds
MaxCitations == 3

Strategies == {"keep_first", "keep_longest", "keep_most_complete"}

\* a duplicate_strategy that is none of the three
UnknownStrategy == "keep_best"

DefaultThreshold == <<17, 20>>
Thresholds == {<<1, 2>>, DefaultThreshold, One}

\* AnalysisConfig(...): the dataclass takes any value for any field
Configs ==
    [duplicate_strategy : Strategies \cup {UnknownStrategy},
     similarity_threshold : Thresholds,
     enable_duplicate_detection : BOOLEAN,
     report_duplicates : {TRUE}]

\* the input file: a JSON list of faculty members, no file at all, or a file
\* that is not JSON
InputFiles == {"well_formed", "absent", "invalid_json"}

\* AnalysisConfig.languages and AnalysisConfig.output_formats, the defaults
Languages == <<"en", "tr">>
OutputFormats == {"csv", "html", "json"}

\* The citation strings an input file may hold, each with the faculty
\* member and the category it is listed under.
\*   ab            no DOI, no year      ab.           the same, one longer
\*   ab(10.1/a)    DOI 10.1/a           abc(10.1/a)   the same DOI, longer
\*   ab(2020)...   year 2020, no DOI, normalized "ab", longer than ab(10.1/a)
\*   aba, bca(2021)  ratio("aba","bca") = 1/3 and ratio("bca","aba") = 2/3
Entry(text, author) == [text |-> text, author |-> author, category |-> "articles"]

Entries == {
    Entry(<<"a", "b">>, "A1"),
    Entry(<<"a", "b">>, "A2"),
    Entry(<<"a", "b", ".">>, "A1"),
    Entry(<<"a", "b", "(", "1", "0", ".", "1", "/", "a", ")">>, "A1"),
    Entry(<<"a", "b", "c", "(", "1", "0", ".", "1", "/", "a", ")">>, "A1"),
    Entry(<<"a", "b", "(", "2", "0", "2", "0", ")", ".", ".", ".">>, "A1"),
    Entry(<<"a", "b", "a">>, "A1"),
    Entry(<<"b", "c", "a", "(", "2", "0", "2", "1", ")">>, "A1")
}

VARIABLES
    input_file,         \* what open() and json.load find at config.input_file
    outputs,            \* the files written into config.output_dir, and the printed summary
    todo,               \* analyze: the output stages not yet run
    config,             \* self.config
    heap,               \* the Citation objects created so far; an object's identity is its index
    citations,          \* self.citations (references into heap)
    duplicates_removed, \* self.duplicates_removed: the ledger of [kept, removed]
    organized_data,     \* self.organized_data
    report,             \* duplicate_report.txt: None, or Some(its entries)
    fingerprint_groups, \* _remove_duplicates: the groups not yet resolved
    unique_citations,   \* _remove_duplicates: unique_citations
    candidates,         \* _remove_similar_duplicates: the citations not yet visited
    accepted,           \* _remove_similar_duplicates: its own unique_citations
    pc

vars == <<input_file, outputs, todo,
          config, heap, citations, duplicates_removed, organized_data, report,
          fingerprint_groups, unique_citations, candidates, accepted, pc>>

\* CitationAnalyzer.__init__ ; what the input file will turn out to be is fixed
\* from the start
Init ==
    /\ input_file \in InputFiles
    /\ outputs = <<>>
    /\ todo = <<>>
    /\ config \in Configs
    /\ heap = <<>>
    /\ citations = <<>>
    /\ duplicates_removed = <<>>
    /\ organized_data = <<>>
    /\ report = None
    /\ fingerprint_groups = <<>>
    /\ unique_citations = <<>>
    /\ candidates = <<>>
    /\ accepted = <<>>
    /\ pc = "start"

\* a variant that goes on to parse whatever the input file is
OpenInputFile_ignore_errors ==
    /\ pc = "start"
    /\ pc' = "load"
    /\ UNCHANGED <<input_file, outputs, todo, config, heap, citations, duplicates_removed,
                   organized_data, report, fingerprint_groups, unique_citations,
                   candidates, accepted>>

\* load_data lines 219-221 and 229-234: open() raises FileNotFoundError for an
\* absent file, json.load raises JSONDecodeError for one that is not JSON; both are
\* logged and raised again, through analyze, to main, which returns 1
OpenInputFile ==
    /\ pc = "start"
    /\ pc' = IF input_file = "well_formed" THEN "load" ELSE "raised"
    /\ UNCHANGED <<input_file, outputs, todo, config, heap, citations, duplicates_removed,
                   organized_data, report, fingerprint_groups, unique_citations,
                   candidates, accepted>>

\* _parse_citations, one pass of its inner loop: one citation string of
\* one faculty member's one category
ParseCitation(text, author, category) ==
    /\ pc = "load"
    /\ Len(heap) < MaxCitations
    /\ heap' = Append(heap, Citation(text, author, category))
    /\ citations' = Append(citations, Len(heap) + 1)
    /\ UNCHANGED <<input_file, outputs, todo, config,
                   duplicates_removed, organized_data, report,
                   fingerprint_groups, unique_citations, candidates, accepted, pc>>

\* a variant that puts every citation into a group of its own
GroupBy_singletons(groups, cs) == groups \o [k \in 1..Len(cs) |-> <<cs[k]>>]

\* fingerprint_groups[citation.fingerprint].append(citation) for every
\* citation: a dict keeps its keys in insertion order
RECURSIVE GroupBy(_, _)
GroupBy(groups, cs) ==
    IF cs = <<>> THEN groups
    ELSE LET c == Head(cs)
             at == {k \in 1..Len(groups) :
                       heap[groups[k][1]].fingerprint = heap[c].fingerprint}
         IN  IF at = {} THEN GroupBy(Append(groups, <<c>>), Tail(cs))
             ELSE GroupBy([groups EXCEPT ![Min(at)] = Append(@, c)], Tail(cs))

\* the end of _parse_citations; load_data's test of enable_duplicate_detection;
\* the grouping loop of _remove_duplicates
StartRemoveDuplicates ==
    /\ pc = "load"
    /\ IF config.enable_duplicate_detection
       THEN /\ fingerprint_groups' = GroupBy(<<>>, citations)
            /\ pc' = "resolve"
       ELSE /\ fingerprint_groups' = fingerprint_groups
            /\ pc' = "done"
    /\ UNCHANGED <<input_file, outputs, todo, config,
                   heap, citations, duplicates_removed, organized_data, report,
                   unique_citations, candidates, accepted>>

\* a variant that takes the last of the longest
Longest_last(group) ==
    group[Max({k \in 1..Len(group) :
                  \A j \in 1..Len(group) : Len(heap[group[k]].text) >= Len(heap[group[j]].text)})]

\* max(group, key=lambda c: len(c.text)): the first of the longest
Longest(group) ==
    group[Min({k \in 1..Len(group) :
                  \A j \in 1..Len(group) : Len(heap[group[k]].text) >= Len(heap[group[j]].text)})]

\* [(best, dup) for dup in group if dup != best]
PairsWithOthers(best, group) ==
    LET others == SelectSeq(group, LAMBDA dup : ~CitEq(heap[dup], heap[best]))
    IN  [k \in 1..Len(others) |-> [kept |-> best, removed |-> others[k]]]

\* a variant whose keep_first keeps the last element of the group
_resolve_duplicate_group_keep_last(group) ==
    IF Len(group) <= 1 THEN [kept |-> group, removed |-> <<>>]
    ELSE IF config.duplicate_strategy = "keep_first"
    THEN [kept |-> <<group[Len(group)]>>,
          removed |-> [k \in 1..(Len(group) - 1) |->
                          [kept |-> group[Len(group)], removed |-> group[k]]]]
    ELSE IF config.duplicate_strategy = "keep_longest"
    THEN [kept |-> <<Longest(group)>>, removed |-> PairsWithOthers(Longest(group), group)]
    ELSE IF config.duplicate_strategy = "keep_most_complete"
    THEN LET with_doi == SelectSeq(group, LAMBDA c : TruthyStr(heap[c].doi))
             best == IF with_doi # <<>> THEN Longest(with_doi) ELSE Longest(group)
         IN  [kept |-> <<best>>, removed |-> PairsWithOthers(best, group)]
    ELSE [kept |-> <<>>, removed |-> <<>>]

_resolve_duplicate_group(group) ==
    IF Len(group) <= 1 THEN [kept |-> group, removed |-> <<>>]
    ELSE IF config.duplicate_strategy = "keep_first"
    THEN [kept |-> <<group[1]>>,
          removed |-> [k \in 1..(Len(group) - 1) |-> [kept |-> group[1], removed |-> group[k + 1]]]]
    ELSE IF config.duplicate_strategy = "keep_longest"
    THEN [kept |-> <<Longest(group)>>, removed |-> PairsWithOthers(Longest(group), group)]
    ELSE IF config.duplicate_strategy = "keep_most_complete"
    THEN LET with_doi == SelectSeq(group, LAMBDA c : TruthyStr(heap[c].doi))
             best == IF with_doi # <<>> THEN Longest(with_doi) ELSE Longest(group)
         IN  [kept |-> <<best>>, removed |-> PairsWithOthers(best, group)]
    ELSE [kept |-> <<>>, removed |-> <<>>]

\* _remove_duplicates, one pass of the loop over fingerprint_groups.items()
ResolveGroup ==
    /\ pc = "resolve"
    /\ fingerprint_groups # <<>>
    /\ LET group == Head(fingerprint_groups)
           res == _resolve_duplicate_group(group)
       IN  IF Len(group) = 1
           THEN /\ unique_citations' = unique_citations \o group
                /\ duplicates_removed' = duplicates_removed
           ELSE /\ unique_citations' = unique_citations \o res.kept
                /\ duplicates_removed' = duplicates_removed \o res.removed
    /\ fingerprint_groups' = Tail(fingerprint_groups)
    /\ UNCHANGED <<input_file, outputs, todo, config,
                   heap, citations, organized_data, report, candidates, accepted, pc>>

\* a variant that enters the similarity pass while groups are still unresolved
StartSimilar_early ==
    /\ pc = "resolve"
    /\ IF Less(config.similarity_threshold, One)
       THEN /\ candidates' = unique_citations
            /\ pc' = "similar"
       ELSE /\ candidates' = candidates
            /\ pc' = "finish"
    /\ accepted' = <<>>
    /\ UNCHANGED <<input_file, outputs, todo, config,
                   heap, citations, duplicates_removed, organized_data, report,
                   fingerprint_groups, unique_citations>>

\* _remove_duplicates line 283: the similarity pass is entered only below 1.0
StartSimilar ==
    /\ pc = "resolve"
    /\ fingerprint_groups = <<>>
    /\ IF Less(config.similarity_threshold, One)
       THEN /\ candidates' = unique_citations
            /\ pc' = "similar"
       ELSE /\ candidates' = candidates
            /\ pc' = "finish"
    /\ accepted' = <<>>
    /\ UNCHANGED <<input_file, outputs, todo, config,
                   heap, citations, duplicates_removed, organized_data, report,
                   fingerprint_groups, unique_citations>>

\* a variant whose keep_most_complete looks at the length alone
_should_replace_by_length(existing, new) ==
    IF config.duplicate_strategy = "keep_first" THEN FALSE
    ELSE Len(heap[new].text) > Len(heap[existing].text)

\* a variant that always prefers the candidate
_should_replace_always(existing, new) == TRUE

_should_replace(existing, new) ==
    IF config.duplicate_strategy = "keep_first" THEN FALSE
    ELSE IF config.duplicate_strategy = "keep_longest"
    THEN Len(heap[new].text) > Len(heap[existing].text)
    ELSE IF config.duplicate_strategy = "keep_most_complete"
    THEN IF TruthyStr(heap[new].doi) /\ ~TruthyStr(heap[existing].doi) THEN TRUE
         ELSE IF TruthyStr(heap[existing].doi) /\ ~TruthyStr(heap[new].doi) THEN FALSE
         ELSE Len(heap[new].text) > Len(heap[existing].text)
    ELSE FALSE

\* a variant that drops the first element of the list, whatever it is
ListRemove_first(list, x) == Tail(list)

\* a variant that removes nothing
ListRemove_nothing(list, x) == list

\* list.remove(x): the first element equal to x goes
ListRemove(list, x) ==
    LET k == Min({j \in 1..Len(list) : CitEq(heap[list[j]], heap[x])})
    IN  Slice(list, 1, k - 1) \o Slice(list, k + 1, Len(list))

\* the accepted citations the candidate is a duplicate of, by position
DuplicateOfAt(citation, unique) ==
    {k \in 1..Len(unique) :
        is_duplicate_of(heap[citation], heap[unique[k]], config.similarity_threshold)}

\* a variant that puts its entries in front of the ledger
SimilarStep_prepend ==
    /\ pc = "similar"
    /\ candidates # <<>>
    /\ LET citation == Head(candidates)
           hits == DuplicateOfAt(citation, accepted)
       IN  IF hits = {}
           THEN /\ accepted' = Append(accepted, citation)
                /\ duplicates_removed' = duplicates_removed
           ELSE LET unique_citation == accepted[Min(hits)]
                IN  IF _should_replace(unique_citation, citation)
                    THEN /\ accepted' = Append(ListRemove(accepted, unique_citation), citation)
                         /\ duplicates_removed' =
                                <<[kept |-> citation, removed |-> unique_citation]>>
                                    \o duplicates_removed
                    ELSE /\ accepted' = accepted
                         /\ duplicates_removed' =
                                <<[kept |-> unique_citation, removed |-> citation]>>
                                    \o duplicates_removed
    /\ candidates' = Tail(candidates)
    /\ UNCHANGED <<input_file, outputs, todo, config,
                   heap, citations, organized_data, report,
                   fingerprint_groups, unique_citations, pc>>

\* _remove_similar_duplicates, one pass of its outer loop
SimilarStep ==
    /\ pc = "similar"
    /\ candidates # <<>>
    /\ LET citation == Head(candidates)
           hits == DuplicateOfAt(citation, accepted)
       IN  IF hits = {}
           THEN /\ accepted' = Append(accepted, citation)
                /\ duplicates_removed' = duplicates_removed
           ELSE LET unique_citation == accepted[Min(hits)]
                IN  IF _should_replace(unique_citation, citation)
                    THEN /\ accepted' = Append(ListRemove(accepted, unique_citation), citation)
                         /\ duplicates_removed' = Append(duplicates_removed,
                                [kept |-> citation, removed |-> unique_citation])
                    ELSE /\ accepted' = accepted
                         /\ duplicates_removed' = Append(duplicates_removed,
                                [kept |-> unique_citation, removed |-> citation])
    /\ candidates' = Tail(candidates)
    /\ UNCHANGED <<input_file, outputs, todo, config,
                   heap, citations, organized_data, report,
                   fingerprint_groups, unique_citations, pc>>

\* return unique_citations, assigned at line 284
EndSimilar ==
    /\ pc = "similar"
    /\ candidates = <<>>
    /\ unique_citations' = accepted
    /\ pc' = "finish"
    /\ UNCHANGED <<input_file, outputs, todo, config,
                   heap, citations, duplicates_removed, organized_data, report,
                   fingerprint_groups, candidates, accepted>>

\* the distinct values of s, in order of first appearance
RECURSIVE FirstSeen(_, _)
FirstSeen(s, seen) ==
    IF s = <<>> THEN seen
    ELSE IF \E k \in 1..Len(seen) : seen[k] = Head(s) THEN FirstSeen(Tail(s), seen)
         ELSE FirstSeen(Tail(s), Append(seen, Head(s)))

\* a variant that sorts the oldest first
RECURSIVE SortAscending(_)
SortAscending(S) ==
    IF S = {} THEN <<>> ELSE <<Min(S)>> \o SortAscending(S \ {Min(S)})

\* sorted(..., reverse=True) of distinct numbers
RECURSIVE SortDescending(_)
SortDescending(S) ==
    IF S = {} THEN <<>> ELSE <<Max(S)>> \o SortDescending(S \ {Max(S)})

\* _organize_citations: category -> year -> citations, the categories in
\* order of first appearance, the years of each newest first
_organize_citations(cs) ==
    LET dated == SelectSeq(cs, LAMBDA c : TruthyNum(heap[c].year))
        cats == FirstSeen([k \in 1..Len(dated) |-> heap[dated[k]].category], <<>>)
        YearsOf(cat) == {Val(heap[dated[k]].year) :
                            k \in {j \in 1..Len(dated) : heap[dated[j]].category = cat}}
        Bucket(cat, y) == SelectSeq(dated, LAMBDA c : heap[c].category = cat
                                                      /\ Val(heap[c].year) = y)
        Years(cat) == LET ys == SortDescending(YearsOf(cat))
                      IN  [k \in 1..Len(ys) |-> [year |-> ys[k], citations |-> Bucket(cat, ys[k])]]
    IN  [k \in 1..Len(cats) |-> [category |-> cats[k], years |-> Years(cats[k])]]

\* _save_duplicate_report: nothing is written for an empty ledger; each
\* entry carries kept.similarity_score(removed)
_save_duplicate_report ==
    IF duplicates_removed = <<>> THEN report
    ELSE Some([k \in 1..Len(duplicates_removed) |->
                 [kept |-> duplicates_removed[k].kept,
                  removed |-> duplicates_removed[k].removed,
                  similarity |-> similarity_score(heap[duplicates_removed[k].kept],
                                                  heap[duplicates_removed[k].removed])]])

\* _remove_duplicates lines 286-296
FinishRemoveDuplicates ==
    /\ pc = "finish"
    /\ citations' = unique_citations
    /\ organized_data' = _organize_citations(unique_citations)
    /\ report' = IF config.report_duplicates /\ Len(citations) - Len(unique_citations) > 0
                 THEN _save_duplicate_report ELSE report
    /\ pc' = "done"
    /\ UNCHANGED <<input_file, outputs, todo, config,
                   heap, duplicates_removed, fingerprint_groups,
                   unique_citations, candidates, accepted>>

Next ==
    \/ OpenInputFile
    \/ \E e \in Entries : ParseCitation(e.text, e.author, e.category)
    \/ StartRemoveDuplicates
    \/ ResolveGroup
    \/ StartSimilar
    \/ SimilarStep
    \/ EndSimilar
    \/ FinishRemoveDuplicates

Spec == Init /\ [][Next]_vars

\* ------------------------------------------------------------ analyze

\* the concatenation of a sequence of sequences
RECURSIVE Concat(_)
Concat(ss) == IF ss = <<>> THEN <<>> ELSE Head(ss) \o Concat(Tail(ss))

\* analyze lines 692-701: the calls that follow load_data, in order
RECURSIVE LanguageStages(_)
LanguageStages(ls) ==
    IF ls = <<>> THEN <<>>
    ELSE (IF "csv" \in OutputFormats THEN <<[stage |-> "csv", language |-> Head(ls)]>> ELSE <<>>)
         \o (IF "html" \in OutputFormats THEN <<[stage |-> "html", language |-> Head(ls)]>>
             ELSE <<>>)
         \o LanguageStages(Tail(ls))

Stages ==
    LanguageStages(Languages)
    \o (IF "json" \in OutputFormats THEN <<[stage |-> "json", language |-> ""]>> ELSE <<>>)
    \o <<[stage |-> "summary", language |-> ""]>>

\* load_data has returned to analyze
StartOutputs ==
    /\ pc = "done"
    /\ todo' = Stages
    /\ pc' = "outputs"
    /\ UNCHANGED <<input_file, outputs, config, heap, citations, duplicates_removed,
                   organized_data, report, fingerprint_groups, unique_citations,
                   candidates, accepted>>

\* the nested loops of save_to_csv, save_to_html and save_to_json over
\* organized_data: one row for each citation of each year of each category
Rows ==
    Concat([k \in 1..Len(organized_data) |->
        Concat([y \in 1..Len(organized_data[k].years) |->
            [c \in 1..Len(organized_data[k].years[y].citations) |->
                [category |-> organized_data[k].category,
                 year |-> organized_data[k].years[y].year,
                 citation |-> organized_data[k].years[y].citations[c]]]])])

\* generate_statistics: None when it raises.  Line 467 calls dict() on the
\* year keys of a category, which are integers: a TypeError for every category
\* of organized_data (a category that is there has a year)
generate_statistics ==
    IF \E k \in 1..Len(organized_data) : organized_data[k].years # <<>> THEN None
    ELSE Some([total_citations |-> Len(citations),
               citations_with_years |->
                   Len(SelectSeq(citations, LAMBDA c : TruthyNum(heap[c].year))),
               citations_without_years |->
                   Len(SelectSeq(citations, LAMBDA c : ~TruthyNum(heap[c].year))),
               duplicates_removed |-> Len(duplicates_removed)])

\* save_to_csv(language): citations_<language>.csv
save_to_csv ==
    /\ pc = "outputs" /\ todo # <<>> /\ Head(todo).stage = "csv"
    /\ outputs' = Append(outputs, [file |-> "csv", language |-> Head(todo).language,
                                   rows |-> Rows])
    /\ todo' = Tail(todo)
    /\ UNCHANGED <<input_file, config, heap, citations, duplicates_removed,
                   organized_data, report, fingerprint_groups, unique_citations,
                   candidates, accepted, pc>>

\* save_to_html(language): citations_<language>.html
save_to_html ==
    /\ pc = "outputs" /\ todo # <<>> /\ Head(todo).stage = "html"
    /\ outputs' = Append(outputs, [file |-> "html", language |-> Head(todo).language,
                                   rows |-> Rows])
    /\ todo' = Tail(todo)
    /\ UNCHANGED <<input_file, config, heap, citations, duplicates_removed,
                   organized_data, report, fingerprint_groups, unique_citations,
                   candidates, accepted, pc>>

\* save_to_json: generate_statistics is called before the file is opened, outside
\* the try
save_to_json ==
    /\ pc = "outputs" /\ todo # <<>> /\ Head(todo).stage = "json"
    /\ IF generate_statistics = None
       THEN /\ pc' = "raised"
            /\ UNCHANGED <<outputs, todo>>
       ELSE /\ outputs' = Append(outputs, [file |-> "json", language |-> "", rows |-> Rows])
            /\ todo' = Tail(todo)
            /\ pc' = pc
    /\ UNCHANGED <<input_file, config, heap, citations, duplicates_removed,
                   organized_data, report, fingerprint_groups, unique_citations,
                   candidates, accepted>>

\* print_summary, then "Analysis complete!" at line 703
print_summary ==
    /\ pc = "outputs" /\ todo # <<>> /\ Head(todo).stage = "summary"
    /\ IF generate_statistics = None
       THEN /\ pc' = "raised"
            /\ UNCHANGED <<outputs, todo>>
       ELSE /\ outputs' = Append(outputs, [file |-> "stdout", language |-> "", rows |-> <<>>])
            /\ todo' = Tail(todo)
            /\ pc' = "complete"
    /\ UNCHANGED <<input_file, config, heap, citations, duplicates_removed,
                   organized_data, report, fingerprint_groups, unique_citations,
                   candidates, accepted>>

\* The citation strings of an input file whose citations carry years and lie in
\* two categories.
\*   a(2019), b(2022), c(2020)   three years of one category, not in order
\*   d(2020)                     shares the bucket of c(2020)
\*   a(2019) under books         the same text, another author and category
\*   c(2020).                    the fingerprint of c(2020), one longer
\*   d                           no year; normalized like d(2020)
AnalyzeEntries == {
    [text |-> <<"c", "(", "2", "0", "2", "0", ")", ".">>, author |-> "A1",
     category |-> "articles"],
    [text |-> <<"a", "(", "2", "0", "1", "9", ")">>, author |-> "A1", category |-> "articles"],
    [text |-> <<"b", "(", "2", "0", "2", "2", ")">>, author |-> "A1", category |-> "articles"],
    [text |-> <<"c", "(", "2", "0", "2", "0", ")">>, author |-> "A1", category |-> "articles"],
    [text |-> <<"d", "(", "2", "0", "2", "0", ")">>, author |-> "A2", category |-> "articles"],
    [text |-> <<"a", "(", "2", "0", "1", "9", ")">>, author |-> "A2", category |-> "books"],
    [text |-> <<"d">>, author |-> "A1", category |-> "articles"]
}

\* analyze(): load_data, then the output stages
NextAnalyze ==
    \/ OpenInputFile
    \/ \E e \in AnalyzeEntries : ParseCitation(e.text, e.author, e.category)
    \/ StartRemoveDuplicates
    \/ ResolveGroup
    \/ StartSimilar
    \/ SimilarStep
    \/ EndSimilar
    \/ FinishRemoveDuplicates
    \/ StartOutputs
    \/ save_to_csv
    \/ save_to_html
    \/ save_to_json
    \/ print_summary

SpecAnalyze == Init /\ [][NextAnalyze]_vars

\* ------------------------------------------------------------ scoring

\* AnalysisConfig with duplicate detection enabled, the default strategy (scoring
\* does not read the strategy) and each threshold
ScoreConfigs ==
    [duplicate_strategy : {"keep_first"},
     similarity_threshold : Thresholds,
     enable_duplicate_detection : {TRUE},
     report_duplicates : {TRUE}]

\* The citation strings of an input file that meet every rule of similarity_score.
\*   "a"(2020) 10.1/a, "b"(2021) 10.1/a   one DOI; titles, years and texts differ
\*   "a"(2020)c, "A"(2020)dd              equal normalized titles, the year 2020
\*   "a"c, "a"dd                          equal titles, no year
\*   ac(2020), add(2020)                  no title, one year, ratio("ac","add") = 2/5
\*   add(2021), add                       the text of add(2020), another year or none
ScoreEntries == {
    Entry(<<"\"", "a", "\"", "(", "2", "0", "2", "0", ")", " ", "1", "0", ".", "1", "/", "a">>, "A1"),
    Entry(<<"\"", "b", "\"", "(", "2", "0", "2", "1", ")", " ", "1", "0", ".", "1", "/", "a">>, "A1"),
    Entry(<<"\"", "a", "\"", "(", "2", "0", "2", "0", ")", "c">>, "A1"),
    Entry(<<"\"", "A", "\"", "(", "2", "0", "2", "0", ")", "d", "d">>, "A1"),
    Entry(<<"\"", "a", "\"", "c">>, "A1"),
    Entry(<<"\"", "a", "\"", "d", "d">>, "A1"),
    Entry(<<"a", "c", "(", "2", "0", "2", "0", ")">>, "A1"),
    Entry(<<"a", "d", "d", "(", "2", "0", "2", "0", ")">>, "A1"),
    Entry(<<"a", "d", "d", "(", "2", "0", "2", "1", ")">>, "A1"),
    Entry(<<"a", "d", "d">>, "A1")
}

\* CitationAnalyzer.__init__ with one of ScoreConfigs and a well-formed input file
InitScore ==
    /\ input_file = "well_formed"
    /\ outputs = <<>>
    /\ todo = <<>>
    /\ config \in ScoreConfigs
    /\ heap = <<>>
    /\ citations = <<>>
    /\ duplicates_removed = <<>>
    /\ organized_data = <<>>
    /\ report = None
    /\ fingerprint_groups = <<>>
    /\ unique_citations = <<>>
    /\ candidates = <<>>
    /\ accepted = <<>>
    /\ pc = "start"

\* load_data on such a file
NextScore ==
    \/ OpenInputFile
    \/ \E e \in ScoreEntries : ParseCitation(e.text, e.author, e.category)
    \/ StartRemoveDuplicates
    \/ ResolveGroup
    \/ StartSimilar
    \/ SimilarStep
    \/ EndSimilar
    \/ FinishRemoveDuplicates

SpecScore == InitScore /\ [][NextScore]_vars

\* ------------------------------------------------------------ years

\* AnalysisConfig with duplicate detection enabled, each of the three
\* strategies and the default threshold
YearConfigs ==
    [duplicate_strategy : Strategies,
     similarity_threshold : {DefaultThreshold},
     enable_duplicate_detection : {TRUE},
     report_duplicates : {TRUE}]

\* The citation strings of an input file that meet every branch of _extract_year.
\*   a(2020)             a parenthesized year
\*   1999 a(2021)        a number in range before the parenthesized one
\*   (1900)2020(2021)    the first parenthesized number is out of range
\*   (1949) a            just below the range, nothing else
\*   (2031)1950          just above the range, then the lowest year
\*   a2020               four digits that follow a letter
\*   2030.               the highest year, not parenthesized
\*   20201 (a)           five digits
\*   (1900)(2021)        the second parenthesized number is the first in range
\*   a                   no digits
YearEntries == {
    Entry(<<"a", "(", "2", "0", "2", "0", ")">>, "A1"),
    Entry(<<"1", "9", "9", "9", " ", "a", "(", "2", "0", "2", "1", ")">>, "A1"),
    Entry(<<"(", "1", "9", "0", "0", ")", "2", "0", "2", "0", "(", "2", "0", "2", "1", ")">>, "A1"),
    Entry(<<"(", "1", "9", "4", "9", ")", " ", "a">>, "A1"),
    Entry(<<"(", "2", "0", "3", "1", ")", "1", "9", "5", "0">>, "A1"),
    Entry(<<"a", "2", "0", "2", "0">>, "A1"),
    Entry(<<"2", "0", "3", "0", ".">>, "A1"),
    Entry(<<"2", "0", "2", "0", "1", " ", "(", "a", ")">>, "A1"),
    Entry(<<"(", "1", "9", "0", "0", ")", "(", "2", "0", "2", "1", ")">>, "A1"),
    Entry(<<"a">>, "A1")
}

\* CitationAnalyzer.__init__ with one of YearConfigs and a well-formed input file
InitYear ==
    /\ input_file = "well_formed"
    /\ outputs = <<>>
    /\ todo = <<>>
    /\ config \in YearConfigs
    /\ heap = <<>>
    /\ citations = <<>>
    /\ duplicates_removed = <<>>
    /\ organized_data = <<>>
    /\ report = None
    /\ fingerprint_groups = <<>>
    /\ unique_citations = <<>>
    /\ candidates = <<>>
    /\ accepted = <<>>
    /\ pc = "start"

\* load_data on such a file
NextYear ==
    \/ OpenInputFile
    \/ \E e \in YearEntries : ParseCitation(e.text, e.author, e.category)
    \/ StartRemoveDuplicates
    \/ ResolveGroup
    \/ StartSimilar
    \/ SimilarStep
    \/ EndSimilar
    \/ FinishRemoveDuplicates

SpecYear == InitYear /\ [][NextYear]_vars

\* ------------------------------------------------------------ properties

Ids == 1..Len(heap)
Valid == config.duplicate_strategy \in Strategies
Enabled == config.enable_duplicate_detection
Strategy(name) == config.duplicate_strategy = name
Threshold == config.similarity_threshold

Elems(s) == {s[k] : k \in 1..Len(s)}
Occurrences(s, x) == Cardinality({k \in 1..Len(s) : s[k] = x})
HasDoi(i) == TruthyStr(heap[i].doi)
SameDoi(i, j) == HasDoi(i) /\ HasDoi(j) /\ heap[i].doi = heap[j].doi
SameFingerprint(i, j) == heap[i].fingerprint = heap[j].fingerprint
TextLen(i) == Len(heap[i].text)

\* every fingerprint group has been resolved and the similarity pass has not begun:
\* unique_citations is the flat survivor list
GroupsResolved == pc = "resolve" /\ fingerprint_groups = <<>>

\* load_data has returned after duplicate detection with one of the three strategies
Deduplicated == pc = "done" /\ Enabled /\ Valid

\* the citations with the DOI of i in the list s, by position
WithDoiOf(i, s) == {k \in 1..Len(s) : SameDoi(i, s[k])}

\* C1, as claimed: under each of the three strategies, two citations with the same DOI
\* have the same fingerprint and exactly one citation with that DOI is in the final set.
C1_OneSurvivorPerDoiInFinalSet ==
    Deduplicated =>
        \A i, j \in Ids : (i # j /\ SameDoi(i, j)) =>
            SameFingerprint(i, j) /\ Cardinality(WithDoiOf(i, citations)) = 1

\* C1, amended: under each of the three strategies, two citations with the same DOI have
\* the same fingerprint and are in the same fingerprint group, exactly one citation with
\* that DOI is in the flat survivor list the Resolver leaves, and at most one is in the
\* final set (the similarity pass may remove the survivor in favour of a citation that
\* has another DOI or none).
C1_SameDoiOneGroupSurvivor ==
    (Valid /\ Enabled) =>
        \A i, j \in Ids : (i # j /\ SameDoi(i, j)) =>
            /\ SameFingerprint(i, j)
            /\ pc = "resolve" =>
                  \A k \in 1..Len(fingerprint_groups) :
                      i \in Elems(fingerprint_groups[k]) <=> j \in Elems(fingerprint_groups[k])
            /\ GroupsResolved => Cardinality(WithDoiOf(i, unique_citations)) = 1
            /\ pc = "done" => Cardinality(WithDoiOf(i, citations)) <= 1

\* two citations with one DOI and different texts were resolved and one is in the final set
C1_Witness ==
    /\ Deduplicated
    /\ \E i, j \in Ids : /\ SameDoi(i, j) /\ heap[i].text # heap[j].text
                         /\ Cardinality(WithDoiOf(i, citations)) = 1

\* C2: a duplicate_strategy outside the three is rejected when the analyzer is
\* constructed: no citation is parsed, grouped or resolved under it, and it never makes
\* a parsed citation vanish (neither kept nor recorded as removed).
C2_UnknownStrategyRejected ==
    ~Valid =>
        /\ pc = "load" /\ heap = <<>>
        /\ \A i \in Ids : pc = "done" =>
              i \in Elems(citations) \/ \E k \in 1..Len(duplicates_removed) :
                                            duplicates_removed[k].removed = i

\* C3: for an input of two citations with different fingerprints whose similarity score
\* (candidate against accepted) equals similarity_threshold, one of the two is removed
\* from the final set and the decision is in the ledger.
C3_ThresholdInclusive ==
    (/\ Deduplicated /\ Len(heap) = 2 /\ ~SameFingerprint(1, 2)
     /\ SameScore(similarity_score(heap[2], heap[1]), Threshold))
    => (Len(citations) = 1 /\ Len(duplicates_removed) = 1)

\* C4: when the Resolver has resolved every group under one of the three strategies, the
\* ledger holds one entry for each citation that is not a survivor, pairing it (removed)
\* with the survivor of its group (kept), and no other entry.
C4_LedgerEntryPerNonSurvivor ==
    (GroupsResolved /\ Valid) =>
        /\ Len(duplicates_removed) = Len(heap) - Len(unique_citations)
        /\ \A i \in Ids \ Elems(unique_citations) :
              \E k \in 1..Len(duplicates_removed) :
                  /\ duplicates_removed[k].removed = i
                  /\ duplicates_removed[k].kept \in Elems(unique_citations)
                  /\ SameFingerprint(duplicates_removed[k].kept, i)

\* the citations that share the fingerprint of i: its group, in input order by index
FpClass(i) == {j \in Ids : SameFingerprint(i, j)}

\* i is the longest of S and, of the longest, the first in input order
FirstLongestIn(i, S) ==
    /\ i \in S
    /\ \A j \in S : TextLen(i) >= TextLen(j) /\ (TextLen(j) = TextLen(i) => i <= j)

\* the group of i has been resolved
GroupDone(i) ==
    pc = "resolve" /\ \A k \in 1..Len(fingerprint_groups) : i \notin Elems(fingerprint_groups[k])

\* the similarity pass takes a step that removes an accepted citation
Replaced(u) == pc = "similar" /\ u \in Elems(accepted) /\ u \notin Elems(accepted')

\* C5: under keep_longest the survivor of a fingerprint group is its longest text, the
\* first in input order among the longest; and the similarity pass replaces an accepted
\* citation only by a candidate whose text is strictly longer.
C5_KeepLongest ==
    /\ [](Strategy("keep_longest") =>
            \A i \in Ids : GroupDone(i) =>
                \E s \in Elems(unique_citations) : FirstLongestIn(s, FpClass(i)))
    /\ [][Strategy("keep_longest") =>
            \A u \in Ids : Replaced(u) =>
                /\ TextLen(Head(candidates)) > TextLen(u)
                /\ Head(candidates) \in Elems(accepted')]_vars

\* keep_longest has kept the first of two equally long texts of a group and the longer
\* of two others, and the similarity pass has replaced an accepted citation
C5_Witness ==
    /\ pc = "done" /\ Enabled /\ Strategy("keep_longest")
    /\ \E k \in 1..Len(duplicates_removed) :
          LET e == duplicates_removed[k]
          IN  SameFingerprint(e.kept, e.removed) /\ TextLen(e.kept) = TextLen(e.removed)
              /\ e.kept < e.removed /\ heap[e.kept] # heap[e.removed]
    /\ \E k \in 1..Len(duplicates_removed) :
          LET e == duplicates_removed[k]
          IN  ~SameFingerprint(e.kept, e.removed) /\ TextLen(e.kept) > TextLen(e.removed)
              /\ e.kept > e.removed

\* an entry the similarity pass appended: the Resolver pairs equal fingerprints only,
\* the flat survivor list holds each fingerprint once
BySimilarity(e) == ~SameFingerprint(e.kept, e.removed)

\* C6: under keep_most_complete, the survivor of a fingerprint group is the longest
\* member with a DOI, or the longest of all when none has a DOI; when the similarity
\* pass finds a citation with a DOI and one without to be duplicates, the one with the
\* DOI is kept, whichever is longer and whichever came first.
C6_KeepMostComplete ==
    Strategy("keep_most_complete") =>
        /\ \A i \in Ids : GroupDone(i) =>
              LET with_doi == {j \in FpClass(i) : HasDoi(j)}
              IN  \E s \in Elems(unique_citations) :
                      FirstLongestIn(s, IF with_doi # {} THEN with_doi ELSE FpClass(i))
        /\ \A k \in 1..Len(duplicates_removed) :
              LET e == duplicates_removed[k]
              IN  BySimilarity(e) => ~(HasDoi(e.removed) /\ ~HasDoi(e.kept))
        /\ (pc = "done" /\ Len(heap) = 2 /\ duplicates_removed # <<>>) =>
              \A i, j \in Ids : (HasDoi(i) /\ ~HasDoi(j)) => citations = <<i>>

\* a longer citation without a DOI came first, a shorter one with the same normalized
\* text and a DOI second, and the second is the one in the final set
C6_Witness ==
    /\ pc = "done" /\ Enabled /\ Strategy("keep_most_complete")
    /\ Len(heap) = 2 /\ ~HasDoi(1) /\ HasDoi(2) /\ TextLen(1) > TextLen(2)
    /\ heap[1].normalized_text = heap[2].normalized_text
    /\ citations = <<2>>
    /\ duplicates_removed = <<[kept |-> 2, removed |-> 1]>>

\* C7: under keep_first the survivor of a fingerprint group is its first element in
\* input order, every other member is in the ledger as removed with that first element
\* as kept, and the similarity pass never replaces an accepted citation.
C7_KeepFirst ==
    /\ [](Strategy("keep_first") =>
            \A i \in Ids : GroupDone(i) =>
                LET first == Min(FpClass(i))
                IN  /\ first \in Elems(unique_citations)
                    /\ FpClass(i) \cap Elems(unique_citations) = {first}
                    /\ \A j \in FpClass(i) \ {first} :
                          Occurrences(duplicates_removed, [kept |-> first, removed |-> j]) = 1)
    /\ [][Strategy("keep_first") => \A u \in Ids : ~Replaced(u)]_vars

\* keep_first has kept the first of a group although a later member is longer, and has
\* kept an accepted citation although the candidate found to be its duplicate is longer
C7_Witness ==
    /\ pc = "done" /\ Enabled /\ Strategy("keep_first")
    /\ \E k \in 1..Len(duplicates_removed) :
          LET e == duplicates_removed[k]
          IN  ~BySimilarity(e) /\ e.kept < e.removed /\ TextLen(e.kept) < TextLen(e.removed)
    /\ \E k \in 1..Len(duplicates_removed) :
          LET e == duplicates_removed[k]
          IN  BySimilarity(e) /\ e.kept < e.removed /\ TextLen(e.kept) < TextLen(e.removed)

\* the text similarity the detector computes for candidate i against accepted j
TextRatio(i, j) == ratio(heap[i].normalized_text, heap[j].normalized_text)

\* C8: for an input of two citations without a DOI, with different years and with a text
\* similarity (the ratio of the normalized texts, second against first, as the detector
\* takes it) below similarity_threshold, under each of the three strategies both are in
\* the final set and the ledger is empty.
C8_NoFalseMerge ==
    (/\ Deduplicated /\ Len(heap) = 2
     /\ ~HasDoi(1) /\ ~HasDoi(2)
     /\ heap[1].year # heap[2].year
     /\ Less(TextRatio(2, 1), Threshold))
    => (citations = <<1, 2>> /\ duplicates_removed = <<>>)

\* two citations with the years 2020 and 2021, no DOI and a ratio below the threshold
\* went through the pipeline and both are in the final set
C8_Witness ==
    /\ Deduplicated /\ Len(heap) = 2
    /\ ~HasDoi(1) /\ ~HasDoi(2)
    /\ TruthyNum(heap[1].year) /\ TruthyNum(heap[2].year) /\ heap[1].year # heap[2].year
    /\ Less(TextRatio(2, 1), Threshold) /\ Less(TextRatio(1, 2), Threshold)
    /\ Less(Threshold, One)
    /\ citations = <<1, 2>> /\ duplicates_removed = <<>>

\* C9: during and after the similarity pass, under each of the three strategies, no two
\* citations of the accepted list have a similarity score >= similarity_threshold with
\* each other.
C9_OneRepresentativePerCluster ==
    (pc = "similar" /\ Valid) =>
        \A i, j \in Elems(accepted) :
            i # j => ~(/\ is_duplicate_of(heap[i], heap[j], Threshold)
                       /\ is_duplicate_of(heap[j], heap[i], Threshold))

\* C10: the similarity score is symmetric, and so the score reported for a ledger entry
\* of the similarity pass (kept against removed) is at least the threshold that the
\* decision (candidate against accepted) met.
C10_ScoreSymmetric ==
    /\ \A i, j \in Ids :
          SameScore(similarity_score(heap[i], heap[j]), similarity_score(heap[j], heap[i]))
    /\ IsSome(report) =>
          \A k \in 1..Len(Val(report)) :
              BySimilarity(Val(report)[k]) => Geq(Val(report)[k].similarity, Threshold)

\* the position of x in the sequence s
PosIn(s, x) == Min({k \in 1..Len(s) : s[k] = x})

\* the year keys of the category at position k of organized_data, in iteration order
YearKeys(k) == [y \in 1..Len(organized_data[k].years) |-> organized_data[k].years[y].year]

\* C11: organized_data maps category -> year -> citations: the category keys are
\* distinct, within every category the year keys are iterated in strictly descending
\* order, and within one bucket the citations have the relative order they have in the
\* final sequence self.citations; the rows written to a file follow that iteration.
C11_OrganizedNewestFirst ==
    /\ \A k, l \in 1..Len(organized_data) :
          k # l => organized_data[k].category # organized_data[l].category
    /\ \A k \in 1..Len(organized_data) :
          /\ \A a, b \in 1..Len(YearKeys(k)) : a < b => YearKeys(k)[a] > YearKeys(k)[b]
          /\ \A y \in 1..Len(organized_data[k].years) :
                LET bucket == organized_data[k].years[y].citations
                IN  /\ bucket # <<>>
                    /\ \A a, b \in 1..Len(bucket) :
                          a < b => /\ bucket[a] \in Elems(citations)
                                   /\ bucket[b] \in Elems(citations)
                                   /\ PosIn(citations, bucket[a]) < PosIn(citations, bucket[b])
    /\ \A o \in 1..Len(outputs) :
          \A a, b \in 1..Len(outputs[o].rows) :
              (a < b /\ outputs[o].rows[a].category = outputs[o].rows[b].category)
              => outputs[o].rows[a].year >= outputs[o].rows[b].year

\* citations of the years 2019, 2022 and 2020, in that order and in one category, were
\* organized, the keys come out as 2022, 2020, 2019, and a file was written from them
C11_Witness ==
    /\ Len(heap) = 3
    /\ [i \in 1..3 |-> heap[i].year] = <<Some(2019), Some(2022), Some(2020)>>
    /\ Len(organized_data) = 1
    /\ YearKeys(1) = <<2022, 2020, 2019>>
    /\ outputs # <<>>
    /\ [r \in 1..3 |-> outputs[1].rows[r].citation] = <<2, 3, 1>>

\* load_data has returned to analyze
Loaded == pc \in {"done", "outputs", "complete"}

\* the buckets of organized_data that hold citation i: <<category position, year position>>
BucketsOf(i) ==
    {b \in (1..Len(organized_data)) \X (1..MaxCitations + 1) :
        /\ b[2] <= Len(organized_data[b[1]].years)
        /\ i \in Elems(organized_data[b[1]].years[b[2]].citations)}

HasYear(i) == TruthyNum(heap[i].year)

\* C12: a citation without a year is created and goes through grouping and the
\* similarity pass; once load_data has returned, a citation of the final set that has
\* no year is in no bucket of organized_data, and one that has a year is in exactly one
\* bucket, once, the bucket of its own category and year.
C12_DatedInOneBucketUndatedInNone ==
    Loaded =>
        \A i \in Elems(citations) :
            IF HasYear(i)
            THEN /\ Cardinality(BucketsOf(i)) = 1
                 /\ \A b \in BucketsOf(i) :
                       /\ organized_data[b[1]].category = heap[i].category
                       /\ organized_data[b[1]].years[b[2]].year = Val(heap[i].year)
                       /\ Occurrences(organized_data[b[1]].years[b[2]].citations, i) = 1
            ELSE BucketsOf(i) = {}

\* C13: when the input file is absent or is not JSON, load_data raises before anything
\* is parsed: the run never leaves its start except to fail, no citation exists, the
\* citation list, the ledger and organized_data stay empty, no duplicate report and no
\* CSV, HTML or JSON file is written and no summary is printed.
C13_BadInputFatalBeforeDedup ==
    input_file # "well_formed" =>
        /\ pc \in {"start", "raised"}
        /\ heap = <<>> /\ citations = <<>> /\ duplicates_removed = <<>>
        /\ fingerprint_groups = <<>> /\ unique_citations = <<>>
        /\ organized_data = <<>> /\ report = None
        /\ outputs = <<>> /\ todo = <<>>

\* the run on an absent input file has failed
C13_Witness == input_file = "absent" /\ pc = "raised"

\* C14: for a well-formed input file and the default output formats analyze never
\* raises, and when it completes it has written the CSV and the HTML file of each
\* language, then the JSON file, and has printed the summary.
C14_AnalyzeCompletes ==
    input_file = "well_formed" =>
        /\ pc # "raised"
        /\ pc = "complete" =>
              [k \in 1..Len(outputs) |-> <<outputs[k].file, outputs[k].language>>]
                  = << <<"csv", "en">>, <<"html", "en">>, <<"csv", "tr">>, <<"html", "tr">>,
                       <<"json", "">>, <<"stdout", "">> >>

\* the fields __post_init__ derives
Derived(c) == <<c.normalized_text, c.doi, c.title, c.year, c.fingerprint>>

Score(i, j) == similarity_score(heap[i], heap[j])

\* line 133 returns 1.0 for i against j
DoiRule(i, j) == SameDoi(i, j)

\* line 139 returns 0.95 for i against j: the test of lines 137-138
TitleRule(i, j) ==
    /\ ~DoiRule(i, j)
    /\ TruthyStr(heap[i].title) /\ TruthyStr(heap[j].title)
    /\ heap[i].year = heap[j].year
    /\ _normalize_string(Val(heap[i].title)) = _normalize_string(Val(heap[j].title))

\* both citations have a year and the years are equal
SameYear(i, j) == HasYear(i) /\ HasYear(j) /\ heap[i].year = heap[j].year

\* x + 0.10 as a fraction
AddTenth(x) == <<10 * x[1] + x[2], 10 * x[2]>>

\* the citations parsed so far, while _parse_citations runs: every list of citations a
\* run works on is there at that point, with the configuration of the run
Parsed == IF pc = "load" THEN Ids ELSE {}

\* C16: for a pair of parsed citations to which neither the DOI rule nor the title rule
\* applies (as similarity_score tests them), the score is the text ratio plus 0.10,
\* capped at 1.0, if both citations have a year and the years are equal, and the bare
\* ratio otherwise; so a pair whose ratio r has threshold - 0.10 <= r < threshold is a
\* duplicate exactly when the years are equal.
C16_YearBoost ==
    \A i, j \in Parsed :
        (~DoiRule(i, j) /\ ~TitleRule(i, j)) =>
            LET r == TextRatio(i, j)
                score == Score(i, j)
            IN  /\ IF SameYear(i, j)
                   THEN SameScore(score, IF Geq(AddTenth(r), One) THEN One ELSE AddTenth(r))
                   ELSE SameScore(score, r)
                /\ (Less(r, Threshold) /\ Geq(AddTenth(r), Threshold)) =>
                       (Geq(score, Threshold) <=> SameYear(i, j))

\* three citations without DOI or title whose texts have one ratio r against the first,
\* threshold - 0.10 <= r < threshold: the second has the year of the first and was
\* removed as its duplicate, the third has another year and is in the final set
C16_Witness ==
    /\ Deduplicated /\ Len(heap) = 3
    /\ \A i \in Ids : ~HasDoi(i) /\ ~TruthyStr(heap[i].title)
    /\ SameYear(2, 1) /\ HasYear(3) /\ ~SameYear(3, 1)
    /\ SameScore(TextRatio(2, 1), TextRatio(3, 1))
    /\ Less(TextRatio(2, 1), Threshold) /\ Geq(AddTenth(TextRatio(2, 1)), Threshold)
    /\ citations = <<1, 3>>
    /\ duplicates_removed = <<[kept |-> 1, removed |-> 2]>>

\* C17: two citations that share a fingerprint have a similarity score >= the
\* configured similarity_threshold, whatever the threshold; so the score the duplicate
\* report gives for a ledger entry of the Group Resolver is at least the threshold.
C17_GroupScoreAtLeastThreshold ==
    /\ \A i, j \in Ids :
          (i # j /\ SameFingerprint(i, j)) => Geq(Score(i, j), Threshold)
    /\ IsSome(report) =>
          \A k \in 1..Len(Val(report)) :
              ~BySimilarity(Val(report)[k]) => Geq(Val(report)[k].similarity, Threshold)

\* the citations of s are in the order of the input sequence
InInputOrder(s) == \A a, b \in 1..Len(s) : a < b => s[a] < s[b]

\* C18: under each of the three strategies, the flat survivor list the Resolver leaves
\* lists the survivors in the order they have in the input, and so the similarity pass
\* visits its candidates in input order.
C18_CandidatesInInputOrder ==
    Valid =>
        /\ GroupsResolved => InInputOrder(unique_citations)
        /\ pc = "similar" => InInputOrder(candidates)

Zero == <<0, 1>>

\* the ratio r with 0.10 added and capped at 1.0
Capped(r) == IF Geq(AddTenth(r), One) THEN One ELSE AddTenth(r)

\* the text ratio of i against j, with 0.10 added and capped at 1.0
Boosted(i, j) == Capped(TextRatio(i, j))

\* C19: the score of a pair of parsed citations is 1.0 when both have a DOI and the DOIs are equal,
\* whatever their titles, years and texts; otherwise 0.95 when the title rule applies
\* (as similarity_score tests it); otherwise the text ratio or the boosted text ratio;
\* and it always lies in [0, 1].
C19_RulePrecedenceAndRange ==
    \A i, j \in Parsed :
        LET score == Score(i, j)
            r == TextRatio(i, j)
        IN  /\ DoiRule(i, j) => SameScore(score, One)
            /\ TitleRule(i, j) => SameScore(score, TitleScore)
            /\ (~DoiRule(i, j) /\ ~TitleRule(i, j)) =>
                  SameScore(score, r) \/ SameScore(score, Capped(r))
            /\ Geq(score, Zero) /\ Geq(One, score)

\* three citations were scored by the three rules: two with one DOI and different
\* titles, years and texts (1.0), the first and a third with equal titles and years and
\* no common DOI (0.95, not their boosted ratio), the second and the third by the ratio
C19_Witness ==
    /\ Deduplicated /\ Len(heap) = 3
    /\ DoiRule(1, 2) /\ heap[1].title # heap[2].title /\ heap[1].year # heap[2].year
    /\ Less(TextRatio(1, 2), One) /\ SameScore(Score(1, 2), One)
    /\ TitleRule(1, 3) /\ SameYear(1, 3) /\ ~SameScore(Boosted(1, 3), TitleScore)
    /\ SameScore(Score(1, 3), TitleScore)
    /\ ~DoiRule(2, 3) /\ ~TitleRule(2, 3) /\ SameScore(Score(2, 3), TextRatio(2, 3))

\* C20: the title rule decides (score 0.95) only for pairs in which both citations have
\* a title, both have a year, the years are equal and the normalized titles are equal;
\* a pair without a common DOI in which a year is absent gets the text ratio.
C20_TitleRuleNeedsYears ==
    \A i, j \in Ids :
        i # j =>
            /\ TitleRule(i, j) =>
                  /\ TruthyStr(heap[i].title) /\ TruthyStr(heap[j].title)
                  /\ SameYear(i, j)
                  /\ _normalize_string(Val(heap[i].title)) = _normalize_string(Val(heap[j].title))
            /\ (~DoiRule(i, j) /\ (~HasYear(i) \/ ~HasYear(j))) =>
                  SameScore(Score(i, j), TextRatio(i, j))

\* the survivors in the list s that have the fingerprint of i, by position
WithFingerprintOf(i, s) == {k \in 1..Len(s) : SameFingerprint(i, s[k])}

\* the ledger entries that name i, as the kept or as the removed citation
EntriesNaming(i) ==
    {k \in 1..Len(duplicates_removed) :
        duplicates_removed[k].kept = i \/ duplicates_removed[k].removed = i}

\* C21: under each of the three strategies, the groups list their members in input
\* order and hold one fingerprint each; once every group is resolved, the flat survivor
\* list holds exactly one citation for each fingerprint of the input, and a citation
\* whose fingerprint no other citation has is itself in the list and is named by no
\* ledger entry.
C21_OneSurvivorPerFingerprint ==
    (pc = "resolve" /\ Valid) =>
        /\ \A k \in 1..Len(fingerprint_groups) :
              /\ InInputOrder(fingerprint_groups[k])
              /\ \A i \in Ids : i \in Elems(fingerprint_groups[k])
                                   <=> SameFingerprint(i, fingerprint_groups[k][1])
        /\ GroupsResolved =>
              \A i \in Ids :
                  /\ Cardinality(WithFingerprintOf(i, unique_citations)) = 1
                  /\ FpClass(i) = {i} =>
                        i \in Elems(unique_citations) /\ EntriesNaming(i) = {}

\* a group of two and a citation alone in its group have been resolved
C21_Witness ==
    /\ GroupsResolved /\ Valid
    /\ \E i, j \in Ids : /\ Cardinality(FpClass(i)) >= 2
                         /\ FpClass(j) = {j}
                         /\ j \in Elems(unique_citations)
                         /\ duplicates_removed # <<>>

Matches(c) == {k \in 1..Len(accepted) : Geq(Score(c, accepted[k]), Threshold)}

\* C23: a step of the similarity pass takes the first candidate and compares it with the
\* accepted list in list order. With no accepted citation of score >= threshold the
\* candidate is appended and the ledger is unchanged. Otherwise the first such citation
\* decides: exactly one ledger entry is appended, pairing the candidate with it; on
\* replace exactly that citation leaves the accepted list and the candidate is appended
\* to it, otherwise the list is unchanged. The accepted list never shrinks.
C23_FirstMatchDecides ==
    [][(pc = "similar" /\ candidates # <<>>) =>
          LET c == Head(candidates)
              hits == Matches(c)
          IN  /\ candidates' = Tail(candidates)
              /\ Len(accepted') >= Len(accepted)
              /\ Len(duplicates_removed') <= Len(duplicates_removed) + 1
              /\ hits = {} <=> accepted' = Append(accepted, c)
              /\ hits = {} => duplicates_removed' = duplicates_removed
              /\ hits # {} =>
                    LET m == accepted[Min(hits)]
                    IN  /\ \/ /\ duplicates_removed' = Append(duplicates_removed,
                                                           [kept |-> m, removed |-> c])
                              /\ accepted' = accepted
                              /\ ~_should_replace(m, c)
                           \/ /\ duplicates_removed' = Append(duplicates_removed,
                                                           [kept |-> c, removed |-> m])
                              /\ _should_replace(m, c)
                              /\ Len(accepted') = Len(accepted)
                              /\ accepted'[Len(accepted')] = c
                              /\ Elems(accepted') = (Elems(accepted) \ {m}) \cup {c}
                              /\ \A a, b \in Elems(accepted) \ {m} :
                                    PosIn(accepted, a) < PosIn(accepted, b)
                                        => PosIn(accepted', a) < PosIn(accepted', b)]_vars

\* the pass has visited three survivors: the second was accepted beside the first, the
\* third matched the second only and replaced it
C23_Witness ==
    /\ pc = "similar" /\ candidates = <<>> /\ Valid
    /\ Len(unique_citations) = 3
    /\ accepted = <<unique_citations[1], unique_citations[3]>>
    /\ duplicates_removed = <<[kept |-> unique_citations[3], removed |-> unique_citations[2]]>>
    /\ Less(Score(unique_citations[3], unique_citations[1]), Threshold)

\* C24: every step leaves the entries the ledger holds where they are and as they are
\* (the ledger before the step is a prefix of the ledger after it), and the Citation
\* objects the entries refer to are never modified; this holds also for an entry whose
\* kept citation a later entry records as removed.
C24_LedgerAppendOnly ==
    [][/\ Len(duplicates_removed') >= Len(duplicates_removed)
       /\ \A k \in 1..Len(duplicates_removed) : duplicates_removed'[k] = duplicates_removed[k]
       /\ \A i \in Ids : i \in 1..Len(heap') /\ heap'[i] = heap[i]]_vars

\* the ledger holds an entry whose kept citation a later entry records as removed
C24_Witness ==
    /\ pc = "done" /\ Valid
    /\ \E k, l \in 1..Len(duplicates_removed) :
          /\ k < l
          /\ duplicates_removed[k].kept = duplicates_removed[l].removed
          /\ duplicates_removed[k].kept \notin Elems(citations)

\* the ledger entries that record i as removed
RemovedBy(i) == {k \in 1..Len(duplicates_removed) : duplicates_removed[k].removed = i}

\* C25: after load_data with duplicate detection under one of the three strategies,
\* every parsed citation is in the final set or is the removed citation of exactly one
\* ledger entry, and the ledger has as many entries as the final set has fewer
\* citations than were parsed.
C25_Conservation ==
    Deduplicated =>
        /\ \A i \in Ids : i \in Elems(citations) \/ Cardinality(RemovedBy(i)) = 1
        /\ Len(duplicates_removed) = Len(heap) - Len(citations)

\* C26: with enable_duplicate_detection false, once load_data has returned the final
\* set is the parsed sequence, the ledger is empty, and every parsed citation that has
\* a year is in the bucket of its category and year of organized_data, the structure
\* the renderers read.
C26_DisabledKeepsAllOrganized ==
    (Loaded /\ ~Enabled) =>
        /\ citations = [k \in 1..Len(heap) |-> k]
        /\ duplicates_removed = <<>>
        /\ \A i \in Ids : HasYear(i) =>
              \E b \in BucketsOf(i) :
                  /\ organized_data[b[1]].category = heap[i].category
                  /\ organized_data[b[1]].years[b[2]].year = Val(heap[i].year)

\* C27: whatever phase appended it, a ledger entry respects the preference of the
\* strategy: under keep_first the kept citation comes before the removed one in the
\* input; under keep_longest the kept text is at least as long as the removed one; under
\* keep_most_complete the removed citation has no DOI unless the kept one has one.
C27_EntriesRespectStrategy ==
    \A k \in 1..Len(duplicates_removed) :
        LET e == duplicates_removed[k]
        IN  /\ Strategy("keep_first") => e.kept < e.removed
            /\ Strategy("keep_longest") => TextLen(e.kept) >= TextLen(e.removed)
            /\ Strategy("keep_most_complete") => ~(HasDoi(e.removed) /\ ~HasDoi(e.kept))

\* under keep_most_complete the Resolver has appended an entry and the similarity pass
\* another, in which a later citation with a DOI is kept over an earlier one without
C27_Witness ==
    /\ pc = "done" /\ Strategy("keep_most_complete")
    /\ \E k, l \in 1..Len(duplicates_removed) :
          LET e == duplicates_removed[k]
              f == duplicates_removed[l]
          IN  /\ ~BySimilarity(e) /\ e.kept # e.removed
              /\ BySimilarity(f) /\ HasDoi(f.kept) /\ ~HasDoi(f.removed)
              /\ f.kept > f.removed /\ TextLen(f.kept) <= TextLen(f.removed)

\* both citations lack a DOI and have the same normalized text
SameTextNoDoi(i, j) ==
    ~HasDoi(i) /\ ~HasDoi(j) /\ heap[i].normalized_text = heap[j].normalized_text

\* some fingerprint group not yet resolved holds both citations
Grouped(i, j) ==
    \E k \in 1..Len(fingerprint_groups) :
        i \in Elems(fingerprint_groups[k]) /\ j \in Elems(fingerprint_groups[k])

\* C28: with the fingerprint taken as the hashed string, two citations have the same
\* fingerprint iff both have a DOI and the DOIs are equal, or neither has a DOI and they
\* have the same normalized text and the same year (absent on both sides counts as the
\* same); a citation with a DOI and one without never have the same fingerprint; two
\* without a DOI, with the same normalized text and different years, have different
\* fingerprints and are never put into one group.
C28_FingerprintIdentity ==
    \A i, j \in Ids :
        /\ SameFingerprint(i, j) <=>
              \/ SameDoi(i, j)
              \/ SameTextNoDoi(i, j) /\ heap[i].year = heap[j].year
        /\ (HasDoi(i) /\ ~HasDoi(j)) => ~SameFingerprint(i, j) /\ ~Grouped(i, j)
        /\ (SameTextNoDoi(i, j) /\ heap[i].year # heap[j].year) =>
              ~SameFingerprint(i, j) /\ ~Grouped(i, j)

\* three citations with one normalized text have been grouped: one without a year, one
\* with a year, one with a DOI; each is alone in its group
C28_Witness ==
    /\ pc = "resolve" /\ Len(heap) = 3 /\ Len(fingerprint_groups) = 3
    /\ SameTextNoDoi(1, 2) /\ ~HasYear(1) /\ HasYear(2)
    /\ HasDoi(3) /\ heap[3].normalized_text = heap[1].normalized_text

\* the positions of the text at which a parenthesized 4-digit number opens
ParenthesizedNumbers(t) ==
    {i \in 1..(Len(t) - 5) : t[i] = "(" /\ t[i + 5] = ")" /\ FourDigitsAt(t, i + 1)}

\* the positions of the text at which a standalone 4-digit number starts: four digits
\* with no letter, digit or underscore next to them
StandaloneNumbers(t) ==
    {i \in 1..(Len(t) - 3) :
        /\ FourDigitsAt(t, i)
        /\ i > 1 => ~IsWord(t[i - 1])
        /\ i + 4 <= Len(t) => ~IsWord(t[i + 4])}

InRange(y) == YearMin <= y /\ y <= YearMax

\* the year the claim derives from a text
ClaimedYear(t) ==
    LET first == IF ParenthesizedNumbers(t) = {} THEN None
                 ELSE Some(Int4(t, Min(ParenthesizedNumbers(t)) + 1))
        standalone == {i \in StandaloneNumbers(t) : InRange(Int4(t, i))}
    IN  IF IsSome(first) /\ InRange(Val(first)) THEN first
        ELSE IF standalone # {} THEN Some(Int4(t, Min(standalone)))
        ELSE None

\* C29: the year of every citation created is the first parenthesized 4-digit number of
\* its text if that number is in 1950..2030, otherwise the first standalone 4-digit
\* number of the text that is in 1950..2030, otherwise absent; so it is absent or in
\* 1950..2030.
C29_YearExtraction ==
    \A i \in Ids :
        /\ heap[i].year = ClaimedYear(heap[i].text)
        /\ HasYear(i) => InRange(Val(heap[i].year))
        /\ ~HasYear(i) => heap[i].year = None

\* three citations were created: in one the parenthesized year follows another number
\* in range, in one the first parenthesized number is out of range and a later
\* standalone number is taken although a parenthesized number in range follows it, in
\* one the only number is just out of range
C29_Witness ==
    /\ Len(heap) = 3
    /\ \E i \in Ids :
          LET t == heap[i].text
          IN  /\ ParenthesizedNumbers(t) # {} /\ StandaloneNumbers(t) # {}
              /\ Min(StandaloneNumbers(t)) < Min(ParenthesizedNumbers(t))
              /\ InRange(Int4(t, Min(StandaloneNumbers(t))))
              /\ heap[i].year = Some(Int4(t, Min(ParenthesizedNumbers(t)) + 1))
              /\ heap[i].year # Some(Int4(t, Min(StandaloneNumbers(t))))
    /\ \E i \in Ids :
          LET t == heap[i].text
          IN  /\ Cardinality(ParenthesizedNumbers(t)) = 2
              /\ ~InRange(Int4(t, Min(ParenthesizedNumbers(t)) + 1))
              /\ InRange(Int4(t, Max(ParenthesizedNumbers(t)) + 1))
              /\ HasYear(i)
              /\ heap[i].year # Some(Int4(t, Max(ParenthesizedNumbers(t)) + 1))
    /\ \E i \in Ids : ParenthesizedNumbers(heap[i].text) # {} /\ ~HasYear(i)

\* the list s holds citations that were parsed, each at most once
Selection(s) == \A k \in 1..Len(s) : s[k] \in Ids /\ Occurrences(s, s[k]) = 1

\* the citations the ledger records as removed
Removed == {duplicates_removed[k].removed : k \in 1..Len(duplicates_removed)}

\* C30: with duplicate detection enabled, the flat survivor list, the accepted list and
\* the final set hold parsed citations only, each at most once, and none that the ledger
\* records as removed; a final citation has the fields its creation gave it, and no step
\* changes a field of a citation that exists.
C30_DedupOnlySelects ==
    /\ [](Enabled =>
            /\ Selection(citations) /\ Selection(unique_citations)
            /\ Selection(accepted) /\ Selection(candidates)
            /\ pc \in {"resolve", "finish"} => Removed \cap Elems(unique_citations) = {}
            /\ pc = "similar" => Removed \cap Elems(accepted) = {}
            /\ Loaded =>
                  /\ Removed \cap Elems(citations) = {}
                  /\ \A i \in Elems(citations) :
                        heap[i] = Citation(heap[i].text, heap[i].author, heap[i].category))
    /\ [][Len(heap') >= Len(heap) /\ \A i \in Ids : heap'[i] = heap[i]]_vars

\* of three parsed citations the last is the final set: it survived its group and then
\* replaced an accepted citation
C30_Witness ==
    /\ pc = "done" /\ Enabled /\ Len(heap) = 3
    /\ citations = <<3>>
    /\ Removed = {1, 2}
    /\ \E k \in 1..Len(duplicates_removed) :
          BySimilarity(duplicates_removed[k]) /\ duplicates_removed[k].kept = 3
    /\ \E k \in 1..Len(duplicates_removed) :
          ~BySimilarity(duplicates_removed[k]) /\ duplicates_removed[k].kept = 3

====
